---- MODULE Spec2Model ----
(***************************************************************************)
(* BATCAVE planner: the calendar's lane allocator (week view and day view) *)
(* and the task store with its reward calculator (routes + MemStorage).    *)
(*                                                                         *)
(* Six specifications share the module:                                   *)
(*   SpecLanes  one run of allocateLanes over a bounded input list, one    *)
(*              forEach iteration per step, for both views;                *)
(*   Spec       the task REST handlers run one after another against the   *)
(*              in-memory storage;                                         *)
(*   SpecViews  the week view's and the day view's selection of the items  *)
(*              of one day, up to the list handed to allocateLanes;        *)
(*   SpecTheme  the EU multipliers held by the theme context;              *)
(*   SpecConc   PATCH handlers in flight together, interleaved at their    *)
(*              await points, against the in-memory storage;               *)
(*   SpecSuggest the suggestions query of the dashboard's dialog.          *)
(***************************************************************************)
EXTENDS Integers, Sequences, FiniteSets, TLC

VARIABLES
    items,          \* allocateLanes: the input list (items: T[])
    sortedItems,    \* allocateLanes: [...items].sort(by startTime)
    positionedW,    \* week view: positioned[] built so far
    positionedD,    \* day view: positioned[] built so far
    idx,            \* index of the next element of sortedItems the forEach visits
    tasks,          \* MemStorage.tasks: Map<id, Task>
    nextId,         \* number of ids handed out by randomUUID() so far, plus one
    now,            \* the wall clock read by new Date()
    req,            \* the request handled last
    res,            \* the response to it
    currentDate,    \* calendar views: the day being laid out
    calEvents,      \* calendar views: the events prop
    calTasks,       \* calendar views: the tasks prop
    timedW,         \* week view: timedItems, the list handed to allocateLanes
    timedD,         \* day view: timedItems, the list handed to allocateLanes
    allDayW,        \* week view: allDayTasks of the day
    allDayD,        \* day view: allDayTasks and allDayEvents
    built,          \* calendar views: the useMemo callbacks have run
    euMultipliers,  \* ThemeProvider: the euMultipliers state
    themeCall,      \* ThemeProvider: the arguments of the last setEUMultiplier call
    handlers,       \* PATCH handlers in flight: each one's position and locals
    isOpen,         \* TaskSuggestions: the dialog is open (the query is enabled)
    fetchStatus,    \* suggestions query: "idle", "fetching" (a request is out) or
                    \* "waiting" (between a failed request and its retry)
    queryStatus,    \* suggestions query: "pending", "error" or "success"
    failureCount,   \* suggestions query: failed requests of the current fetch
    retryTimer,     \* suggestions query: the delay being waited out, in ms
    attempts,       \* requests sent since the dialog was opened or refetch() called
    sent,           \* requests sent to /api/tasks/suggestions in all
    hasData,        \* suggestions query: a response has been cached
    trigger         \* what sent the last request: "open", "refetch" or "retry"

laneVars == <<items, sortedItems, positionedW, positionedD, idx>>
storeVars == <<tasks, nextId, now, req, res>>
calVars == <<currentDate, calEvents, calTasks, timedW, timedD, allDayW, allDayD, built>>
themeVars == <<euMultipliers, themeCall>>
concVars == <<handlers>>
suggestVars == <<isOpen, fetchStatus, queryStatus, failureCount, retryTimer, attempts, sent,
                 hasData, trigger>>
vars == <<items, sortedItems, positionedW, positionedD, idx, tasks, nextId, now, req, res,
          currentDate, calEvents, calTasks, timedW, timedD, allDayW, allDayD, built,
          euMultipliers, themeCall, handlers,
          isOpen, fetchStatus, queryStatus, failureCount, retryTimer, attempts, sent,
          hasData, trigger>>

(***************************************************************************)
(* Bounds of the model.                                                    *)
(***************************************************************************)
MaxLen == 4         \* longest input list given to allocateLanes
MaxTasks == 1       \* tasks created in one run
MaxClock == 1       \* latest instant the clock reaches

\* An optional value: Undef for undefined / null / a key absent from a body,
\* Some(x) for a value that is present, Val(o) to read it.
Undef == <<>>
Some(x) == <<x>>
Val(o) == o[1]

Max(S) == CHOOSE x \in S : \A y \in S : y <= x

(***************************************************************************)
(* Lane allocator.  Times are milliseconds counted from the start of the   *)
(* displayed day; new Date(s).getTime() of an item's time string is that   *)
(* number.                                                                 *)
(***************************************************************************)
MsPerMinute == 60 * 1000

\* Default 1 hour: itemStart + (60 * 60 * 1000)
DefaultDuration == 60 * 60 * 1000

\* The items drawn, in minutes.  An event carries an end: an hour after its
\* start, equal to its start, or (two malformed or short ones) elsewhere; a
\* task carries none.
StartMinutes == {0, 30, 80}

ItemShapes ==
    {[startTime |-> s * MsPerMinute, endTime |-> Some((s + 60) * MsPerMinute)] :
        s \in StartMinutes}
    \cup {[startTime |-> s * MsPerMinute, endTime |-> Some(s * MsPerMinute)] :
        s \in StartMinutes}
    \cup {[startTime |-> s * MsPerMinute, endTime |-> Undef] : s \in StartMinutes}
    \cup {[startTime |-> 0, endTime |-> Some(30 * MsPerMinute)],
          [startTime |-> 30 * MsPerMinute, endTime |-> Some(0)],
          [startTime |-> 80 * MsPerMinute, endTime |-> Some(30 * MsPerMinute)]}

\* The lists of at most MaxLen items; the item at input position i has id i.
InputLists ==
    UNION {[1..n -> ItemShapes] : n \in 0..MaxLen}

WithIds(l) ==
    [i \in DOMAIN l |-> [id |-> i, startTime |-> l[i].startTime, endTime |-> l[i].endTime]]

\* Mutant: the default duration of an item without an end is forgotten.
EndOfMutNoDefault(item) ==
    IF item.endTime # Undef THEN Val(item.endTime) ELSE item.startTime

\* item.endTime ? new Date(item.endTime).getTime() : itemStart + 60*60*1000
EndOf(item) ==
    IF item.endTime # Undef THEN Val(item.endTime) ELSE item.startTime + DefaultDuration

\* Array.prototype.sort is stable: an element goes after every element already
\* placed whose start is not greater than its own.
RECURSIVE InsertSorted(_, _)
InsertSorted(s, x) ==
    IF s = <<>> THEN <<x>>
    ELSE IF s[Len(s)].startTime - x.startTime <= 0
         THEN Append(s, x)
         ELSE Append(InsertSorted(SubSeq(s, 1, Len(s) - 1), x), s[Len(s)])

RECURSIVE SortByStart(_)
SortByStart(l) ==
    IF l = <<>> THEN <<>>
    ELSE InsertSorted(SortByStart(SubSeq(l, 1, Len(l) - 1)), l[Len(l)])

\* positioned.filter(existing => itemStart < existingEnd && itemEnd > existingStart),
\* as the set of indices of positioned (the filter keeps references).
Conflicts(positioned, item) ==
    {i \in DOMAIN positioned :
        /\ item.startTime < EndOf(positioned[i])
        /\ EndOf(item) > positioned[i].startTime}

\* let lane = 0; while (usedLanes.includes(lane)) lane++;
RECURSIVE FirstFreeFrom(_, _)
FirstFreeFrom(usedLanes, lane) ==
    IF lane \in usedLanes THEN FirstFreeFrom(usedLanes, lane + 1) ELSE lane

\* Mutant: the lane after the highest used one, instead of the lowest free one.
FirstFreeLaneMutNext(usedLanes) ==
    IF usedLanes = {} THEN 0 ELSE Max(usedLanes) + 1

FirstFreeLane(usedLanes) == FirstFreeFrom(usedLanes, 0)

UsedLanes(positioned, conflicts) == {positioned[i].lane : i \in conflicts}

\* Mutant: the lane counts of the conflicting items are ignored.
NewMaxLanesMutOwn(positioned, conflicts, lane) == lane + 1

\* Mutant: the lane itself is taken for the number of lanes.
NewMaxLanesMutLane(positioned, conflicts, lane) ==
    Max({lane} \cup {positioned[i].maxLanes : i \in conflicts})

\* Math.max(lane + 1, ...conflicts.map(c => c.maxLanes))
NewMaxLanes(positioned, conflicts, lane) ==
    Max({lane + 1} \cup {positioned[i].maxLanes : i \in conflicts})

\* conflicts.forEach(conflict => { conflict.maxLanes = maxLanes })
UpdateConflicts(positioned, conflicts, maxLanes) ==
    [i \in DOMAIN positioned |->
        IF i \in conflicts THEN [positioned[i] EXCEPT !.maxLanes = maxLanes]
        ELSE positioned[i]]

Positioned(item, lane, maxLanes) ==
    [id |-> item.id, startTime |-> item.startTime, endTime |-> item.endTime,
     lane |-> lane, maxLanes |-> maxLanes]

\* Week view: one forEach iteration; the conflicts are updated, then the item is pushed.
PlaceWeek(positioned, item) ==
    LET conflicts == Conflicts(positioned, item)
        lane == FirstFreeLane(UsedLanes(positioned, conflicts))
        maxLanes == NewMaxLanes(positioned, conflicts, lane)
    IN  Append(UpdateConflicts(positioned, conflicts, maxLanes),
               Positioned(item, lane, maxLanes))

\* Mutant: the day view pushes the item and forgets to update the conflicts.
PlaceDayMutNoUpdate(positioned, item) ==
    LET conflicts == Conflicts(positioned, item)
        lane == FirstFreeLane(UsedLanes(positioned, conflicts))
        maxLanes == NewMaxLanes(positioned, conflicts, lane)
    IN  Append(positioned, Positioned(item, lane, maxLanes))

\* Day view: one forEach iteration; the item is pushed, then the conflicts are updated.
PlaceDay(positioned, item) ==
    LET conflicts == Conflicts(positioned, item)
        lane == FirstFreeLane(UsedLanes(positioned, conflicts))
        maxLanes == NewMaxLanes(positioned, conflicts, lane)
    IN  UpdateConflicts(Append(positioned, Positioned(item, lane, maxLanes)),
                        conflicts, maxLanes)

\* A fraction of the day column's width, as <<numerator, denominator>>
\* (denominator > 0); 100% is <<1, 1>>.
FracLess(a, b) == a[1] * b[2] < b[1] * a[2]
FracAdd(a, b) == <<a[1] * b[2] + b[1] * a[2], a[2] * b[2]>>

\* Week view cards: width = maxLanes > 1 ? 100 / maxLanes % : 100%,
\* left = maxLanes > 1 ? (lane / maxLanes) * 100 % : 0%
CardSpanWeek(p) ==
    IF p.maxLanes > 1
    THEN [left |-> <<p.lane, p.maxLanes>>, width |-> <<1, p.maxLanes>>]
    ELSE [left |-> <<0, 1>>, width |-> <<1, 1>>]

\* Day view cards: width = maxLanes ? 100 / maxLanes % : 100%,
\* left = maxLanes ? (lane / maxLanes) * 100 % : 0%
CardSpanDay(p) ==
    IF p.maxLanes # 0
    THEN [left |-> <<p.lane, p.maxLanes>>, width |-> <<1, p.maxLanes>>]
    ELSE [left |-> <<0, 1>>, width |-> <<1, 1>>]

(***************************************************************************)
(* IEEE-754 binary64 arithmetic, as far as the reward calculator uses it:  *)
(* positive finite numbers, multiplication with round-to-nearest-even,     *)
(* parseFloat of a decimal with one fractional digit, Math.round.          *)
(* A natural number of any size is a little-endian sequence of limbs.      *)
(***************************************************************************)
LimbBits == 14
Base == 2 ^ LimbBits

RECURSIVE BigTrim(_)
BigTrim(a) ==
    IF a # <<>> /\ a[Len(a)] = 0 THEN BigTrim(SubSeq(a, 1, Len(a) - 1)) ELSE a

RECURSIVE BigFromInt(_)
BigFromInt(n) == IF n = 0 THEN <<>> ELSE <<n % Base>> \o BigFromInt(n \div Base)

RECURSIVE BigToInt(_)
BigToInt(a) == IF a = <<>> THEN 0 ELSE a[1] + Base * BigToInt(Tail(a))

RECURSIVE BigAddC(_, _, _)
BigAddC(a, b, carry) ==
    IF a = <<>> /\ b = <<>> THEN BigFromInt(carry)
    ELSE LET x == IF a = <<>> THEN 0 ELSE a[1]
             y == IF b = <<>> THEN 0 ELSE b[1]
             t == x + y + carry
         IN  <<t % Base>> \o BigAddC(IF a = <<>> THEN a ELSE Tail(a),
                                     IF b = <<>> THEN b ELSE Tail(b), t \div Base)

BigAdd(a, b) == BigTrim(BigAddC(a, b, 0))

RECURSIVE BigMulSmallC(_, _, _)
BigMulSmallC(a, c, carry) ==
    IF a = <<>> THEN BigFromInt(carry)
    ELSE LET t == a[1] * c + carry
         IN  <<t % Base>> \o BigMulSmallC(Tail(a), c, t \div Base)

\* a * c, for 0 <= c < Base
BigMulSmall(a, c) == BigTrim(BigMulSmallC(a, c, 0))

RECURSIVE BigMul(_, _)
BigMul(a, b) ==
    IF b = <<>> THEN <<>>
    ELSE BigAdd(BigMulSmall(a, b[1]), BigTrim(<<0>> \o BigMul(a, Tail(b))))

\* a divided by d, for 0 < d <= Base: [q |-> quotient, r |-> remainder]
RECURSIVE BigDivSmallR(_, _)
BigDivSmallR(a, d) ==
    IF a = <<>> THEN [q |-> <<>>, r |-> 0]
    ELSE LET hi == BigDivSmallR(Tail(a), d)
             cur == hi.r * Base + a[1]
         IN  [q |-> <<cur \div d>> \o hi.q, r |-> cur % d]

BigDivSmall(a, d) ==
    LET x == BigDivSmallR(a, d) IN [q |-> BigTrim(x.q), r |-> x.r]

\* 2^n
BigPow2(n) == [i \in 1..(n \div LimbBits) |-> 0] \o <<2 ^ (n % LimbBits)>>

RECURSIVE BitLenSmall(_)
BitLenSmall(n) == IF n = 0 THEN 0 ELSE 1 + BitLenSmall(n \div 2)

BigBitLen(a) ==
    IF a = <<>> THEN 0 ELSE LimbBits * (Len(a) - 1) + BitLenSmall(a[Len(a)])

BigIsOdd(a) == a # <<>> /\ a[1] % 2 = 1

\* floor(a / 2^k) for k >= 1, with the bits shifted out: [q, roundBit (the
\* highest of them), sticky (whether any lower one, or the sticky bit given,
\* is set)].  Whole limbs are shifted out first.
RECURSIVE BigShiftRight(_, _, _)
BigShiftRight(a, k, sticky) ==
    IF k > LimbBits
    THEN LET h == BigDivSmall(a, Base)
         IN  BigShiftRight(h.q, k - LimbBits, sticky \/ h.r # 0)
    ELSE LET h == BigDivSmall(a, 2 ^ k)
             half == 2 ^ (k - 1)
         IN  [q |-> h.q,
              roundBit |-> h.r \div half,
              sticky |-> sticky \/ (h.r % half # 0)]

\* The significand has 53 bits.
MantissaBits == 53

\* The binary64 nearest to n * 2^e (plus a nonzero fraction of 2^e when sticky
\* is set), ties to even, for n > 0: [m |-> 53-bit significand, e |-> exponent]
\* standing for m * 2^e.
RoundToDouble(n, sticky, e) ==
    LET len == BigBitLen(n)
    IN  IF len <= MantissaBits
        THEN [m |-> BigMul(n, BigPow2(MantissaBits - len)), e |-> e - (MantissaBits - len)]
        ELSE LET k == len - MantissaBits
                 s == BigShiftRight(n, k, sticky)
                 up == s.roundBit = 1 /\ (s.sticky \/ BigIsOdd(s.q))
                 q == IF up THEN BigAdd(s.q, <<1>>) ELSE s.q
             IN  IF BigBitLen(q) > MantissaBits
                 THEN [m |-> BigDivSmall(q, 2).q, e |-> e + k + 1]
                 ELSE [m |-> q, e |-> e + k]

\* The binary64 nearest to tenths / 10: a numeric literal of the source with at
\* most one fractional digit, or parseFloat of the decimal string of such a number
\* (Number.prototype.toString and parseFloat round-trip).
GuardBits == 64
DoubleOfTenths(tenths) ==
    LET d == BigDivSmall(BigMulSmall(BigPow2(GuardBits), tenths), 10)
    IN  RoundToDouble(d.q, d.r # 0, 0 - GuardBits)

\* x * y in binary64
FMul(x, y) == RoundToDouble(BigMul(x.m, y.m), FALSE, x.e + y.e)

\* Math.round(x) for 2^-60 < x < 2^30: floor(x + 1/2), that is
\* (floor(2x) + 1) div 2.
MathRound(x) ==
    LET n == 0 - x.e
    IN  IF n > MantissaBits THEN 0
        ELSE (BigToInt(BigShiftRight(BigMul(x.m, <<2>>), n, FALSE).q) + 1) \div 2

(***************************************************************************)
(* Reward calculator (MemStorage.calculateXPReward / calculateEUReward).   *)
(* Hours are held as in the source, as the decimal string of a number; a   *)
(* string "a.b" is modelled by its tenths 10a + b.                         *)
(***************************************************************************)
\* Math.round of a product that is not a number; no rounded product is negative.
NaN == 0 - 1

\* Keys every object literal inherits from Object.prototype: a lookup by such
\* a key yields a function (or the prototype object), which is truthy, and a
\* product with it is NaN.
ObjectPrototypeKeys ==
    {"constructor", "toString", "valueOf", "hasOwnProperty", "isPrototypeOf",
     "propertyIsEnumerable", "toLocaleString", "__proto__"}

\* basePriorityMultipliers = { low: 10, medium: 15, high: 25, urgent: 40 }
BasePriorityMultipliers(priority) ==
    CASE priority = "low" -> Some(10)
      [] priority = "medium" -> Some(15)
      [] priority = "high" -> Some(25)
      [] priority = "urgent" -> Some(40)
      [] OTHER -> Undef

\* domainMultipliers = { academic: 1.0, fitness: 2.5, creative: 0.8, social: 1.2,
\* maintenance: 0.6 }, each as the tenths of its literal
DomainMultipliers(domain) ==
    CASE domain = "academic" -> Some(10)
      [] domain = "fitness" -> Some(25)
      [] domain = "creative" -> Some(8)
      [] domain = "social" -> Some(12)
      [] domain = "maintenance" -> Some(6)
      [] OTHER -> Undef

\* parseFloat(hours) of an hours string
ParseFloat(tenths) == DoubleOfTenths(tenths)

\* const baseXP = basePriorityMultipliers[priority] || 15;
\* return Math.round(baseXP * hours);
calculateXPReward(priority, hours) ==
    IF BasePriorityMultipliers(priority) # Undef
    THEN MathRound(FMul(DoubleOfTenths(10 * Val(BasePriorityMultipliers(priority))), hours))
    ELSE IF priority \in ObjectPrototypeKeys
         THEN NaN
         ELSE MathRound(FMul(DoubleOfTenths(10 * 15), hours))

\* const multiplier = domainMultipliers[domain] || 1.0;
\* return Math.round((hours * multiplier) * 10);
calculateEUReward(domain, hours) ==
    IF DomainMultipliers(domain) # Undef
    THEN MathRound(FMul(FMul(hours, DoubleOfTenths(Val(DomainMultipliers(domain)))),
                        DoubleOfTenths(10 * 10)))
    ELSE IF domain \in ObjectPrototypeKeys
         THEN NaN
         ELSE MathRound(FMul(FMul(hours, DoubleOfTenths(10)), DoubleOfTenths(10 * 10)))

(***************************************************************************)
(* Schemas (shared/schema.ts).  A request body is a record of optional     *)
(* fields; title stands for the text fields the handlers pass through      *)
(* untouched (title, description, dueDate).                                *)
(***************************************************************************)
EmptyBody ==
    [title |-> Undef, domain |-> Undef, priority |-> Undef, estimatedHours |-> Undef,
     actualHours |-> Undef, isCompleted |-> Undef, completedAt |-> Undef,
     xpReward |-> Undef, euReward |-> Undef, userId |-> Undef]

\* z.number().min(0.5).max(24).multipleOf(0.5), on tenths
ValidEstimatedHours(tenths) == tenths >= 5 /\ tenths <= 240 /\ tenths % 5 = 0

\* z.number().min(0.1).max(100).multipleOf(0.1), on tenths
ValidActualHours(tenths) == tenths >= 1 /\ tenths <= 1000

\* clientTaskSchema.parse(req.body) succeeds: title, domain and estimatedHours
\* are required; an actualHours sent at creation is a numeric column's string.
ClientTaskValid(body) ==
    /\ body.title # Undef
    /\ body.domain # Undef
    /\ body.estimatedHours # Undef
    /\ ValidEstimatedHours(Val(body.estimatedHours))

\* The object clientTaskSchema.parse returns: the keys the schema omits or does
\* not know (userId, xpReward, euReward, isCompleted, completedAt) are stripped.
ClientTaskParsed(body) ==
    [body EXCEPT !.userId = Undef, !.xpReward = Undef, !.euReward = Undef,
                 !.isCompleted = Undef, !.completedAt = Undef]

\* clientUpdateTaskSchema.parse(req.body) succeeds: every key is optional.
ClientUpdateValid(body) ==
    /\ body.estimatedHours # Undef => ValidEstimatedHours(Val(body.estimatedHours))
    /\ body.actualHours # Undef => ValidActualHours(Val(body.actualHours))

\* Mutant: the update schema lets the reward fields through.
ClientUpdateParsedMutKeepRewards(body) ==
    [body EXCEPT !.userId = Undef, !.completedAt = Undef]

\* The object clientUpdateTaskSchema.parse returns: userId, xpReward, euReward
\* (omitted by updateTaskSchema) and completedAt (omitted by the client schema)
\* are stripped.
ClientUpdateParsed(body) ==
    [body EXCEPT !.userId = Undef, !.xpReward = Undef, !.euReward = Undef,
                 !.completedAt = Undef]

(***************************************************************************)
(* MemStorage.                                                             *)
(***************************************************************************)
\* x ?? y over optional values
Coalesce(o, default) == IF o # Undef THEN Val(o) ELSE default

\* Mutant: the fields of insertTask are spread after the server's values.
createTaskMutSpreadLast(insertTask, id, userId, clock) ==
    [id |-> id,
     userId |-> userId,
     title |-> Val(insertTask.title),
     domain |-> Val(insertTask.domain),
     priority |-> Coalesce(insertTask.priority, "medium"),
     estimatedHours |-> Coalesce(insertTask.estimatedHours, 10),
     actualHours |-> insertTask.actualHours,
     xpReward |-> 0,
     euReward |-> 0,
     isCompleted |-> FALSE,
     completedAt |-> Undef,
     createdAt |-> clock,
     updatedAt |-> clock]

\* createTask(insertTask): the task stored under a fresh id
createTask(insertTask, id, userId, clock) ==
    [id |-> id,
     userId |-> userId,
     title |-> Val(insertTask.title),
     domain |-> Val(insertTask.domain),
     priority |-> Coalesce(insertTask.priority, "medium"),
     estimatedHours |-> Coalesce(insertTask.estimatedHours, 10),
     actualHours |-> Undef,
     xpReward |-> 0,
     euReward |-> 0,
     isCompleted |-> FALSE,
     completedAt |-> Undef,
     createdAt |-> clock,
     updatedAt |-> clock]

\* { ...existingTask, ...updateData }: a key present in updateData replaces the
\* task's field.
Spread(existingTask, updateData) ==
    [existingTask EXCEPT
        !.title = Coalesce(updateData.title, @),
        !.domain = Coalesce(updateData.domain, @),
        !.priority = Coalesce(updateData.priority, @),
        !.estimatedHours = Coalesce(updateData.estimatedHours, @),
        !.actualHours = IF updateData.actualHours # Undef THEN updateData.actualHours ELSE @,
        !.isCompleted = Coalesce(updateData.isCompleted, @),
        !.completedAt = IF updateData.completedAt # Undef THEN updateData.completedAt ELSE @,
        !.xpReward = Coalesce(updateData.xpReward, @),
        !.euReward = Coalesce(updateData.euReward, @)]

\* Mutant: the rewards are computed whenever the update says isCompleted.
IsCompletingMutAlways(existingTask, updateData) ==
    updateData.isCompleted = Some(TRUE)

\* if (updateData.isCompleted && !existingTask.isCompleted)
IsCompleting(existingTask, updateData) ==
    updateData.isCompleted = Some(TRUE) /\ ~existingTask.isCompleted

\* Mutant: the hours sent are ignored.
HoursUsedMutEstimated(existingTask, updateData) == existingTask.estimatedHours

\* const actualHours = updateData.actualHours || existingTask.estimatedHours
HoursUsed(existingTask, updateData) ==
    Coalesce(updateData.actualHours, existingTask.estimatedHours)

\* updateTask(id, updateData) on the task found: the task written back
updateTask(existingTask, updateData, clock) ==
    LET merged == Spread(existingTask, updateData)
        actualHours == HoursUsed(existingTask, updateData)
        hoursAsNumber == ParseFloat(actualHours)
    IN  IF IsCompleting(existingTask, updateData)
        THEN [merged EXCEPT
                !.xpReward = calculateXPReward(existingTask.priority, hoursAsNumber),
                !.euReward = calculateEUReward(existingTask.domain, hoursAsNumber),
                !.actualHours = Some(actualHours),
                !.updatedAt = clock]
        ELSE [merged EXCEPT !.updatedAt = clock]

(***************************************************************************)
(* Calendar views (week-view.tsx positionedData, day view useMemo): the    *)
(* selection of one day's items and the list handed to allocateLanes.      *)
(* An instant is a whole number of hours, 24 * day + hour of the day; an   *)
(* event is [id, startTime, endTime, allDay], a task [id, dueDate] with an *)
(* optional dueDate.                                                       *)
(***************************************************************************)
MaxCalEvents == 2   \* longest events prop
MaxCalTasks == 2    \* longest tasks prop

START_HOUR == 6
END_HOUR == 23

HoursPerDay == 24
MsPerHour == 60 * MsPerMinute

\* date.toDateString() of an instant, as the day's number
DateKey(t) == t \div HoursPerDay
\* date.getHours()
GetHours(t) == t % HoursPerDay

\* The days laid out, and the instants of the model: the day before, the day
\* itself and the day after.
ViewDays == {1}
EventShapes ==
    {[startTime |-> 24 + 9, endTime |-> 24 + 10, allDay |-> FALSE],
     [startTime |-> 24 + 9, endTime |-> 24 + 10, allDay |-> TRUE],
     [startTime |-> 22, endTime |-> 24 + 2, allDay |-> FALSE],
     [startTime |-> 0, endTime |-> 1, allDay |-> TRUE],
     [startTime |-> 48 + 9, endTime |-> 48 + 10, allDay |-> FALSE]}
TaskShapes ==
    {[dueDate |-> Undef], [dueDate |-> Some(48 + 9)]}
    \cup {[dueDate |-> Some(24 + h)] : h \in 0..(HoursPerDay - 1)}

EventLists == UNION {[1..n -> EventShapes] : n \in 0..MaxCalEvents}
TaskLists == UNION {[1..n -> TaskShapes] : n \in 0..MaxCalTasks}

EventsWithIds(l) ==
    [i \in DOMAIN l |-> [id |-> <<"event", i>>, startTime |-> l[i].startTime,
                         endTime |-> l[i].endTime, allDay |-> l[i].allDay]]
TasksWithIds(l) ==
    [i \in DOMAIN l |-> [id |-> <<"task", i>>, dueDate |-> l[i].dueDate]]

\* { id, type: 'event', startTime, endTime: event.endTime?.toString() }
TimedEvent(event) ==
    [id |-> event.id, startTime |-> event.startTime * MsPerHour,
     endTime |-> Some(event.endTime * MsPerHour)]

\* { id, type: 'task', startTime: task.dueDate, endTime: undefined }
TimedTask(task) ==
    [id |-> task.id, startTime |-> Val(task.dueDate) * MsPerHour, endTime |-> Undef]

TimedItemsOf(timedEvents, timedTasks) ==
    [i \in 1..Len(timedEvents) |-> TimedEvent(timedEvents[i])]
    \o [i \in 1..Len(timedTasks) |-> TimedTask(timedTasks[i])]

IdsOf(l) == {l[i].id : i \in DOMAIN l}

\* Week view: events.filter(event => startDate.toDateString() === dateKey)
WeekDayEvents(events, date) ==
    LET Keep(event) == DateKey(event.startTime) = date
    IN  SelectSeq(events, Keep)

\* Week view: tasks.filter(task => task.dueDate && same day)
WeekDayTasks(taskList, date) ==
    LET Keep(task) == task.dueDate # Undef /\ DateKey(Val(task.dueDate)) = date
    IN  SelectSeq(taskList, Keep)

\* Week view: hours >= START_HOUR && hours <= END_HOUR
WeekTimedTasks(dayTasks) ==
    LET Keep(task) ==
            /\ task.dueDate # Undef
            /\ GetHours(Val(task.dueDate)) >= START_HOUR
            /\ GetHours(Val(task.dueDate)) <= END_HOUR
    IN  SelectSeq(dayTasks, Keep)

\* Week view: hours < START_HOUR || hours > END_HOUR
WeekAllDayTasks(dayTasks) ==
    LET Keep(task) ==
            \/ task.dueDate = Undef
            \/ GetHours(Val(task.dueDate)) < START_HOUR
            \/ GetHours(Val(task.dueDate)) > END_HOUR
    IN  SelectSeq(dayTasks, Keep)

\* Week view: the timedItems of one day
WeekTimedItems(events, taskList, date) ==
    TimedItemsOf(WeekDayEvents(events, date), WeekTimedTasks(WeekDayTasks(taskList, date)))

\* Day view: (eventStart <= dayEnd && eventEnd >= dayStart) || event.allDay
DayDayEvents(events, date) ==
    LET Keep(event) ==
            \/ DateKey(event.startTime) <= date /\ DateKey(event.endTime) >= date
            \/ event.allDay
    IN  SelectSeq(events, Keep)

\* Day view: dayEvents.filter(event => !event.allDay)
DayTimedEvents(dayEvents) ==
    LET Keep(event) == ~event.allDay
    IN  SelectSeq(dayEvents, Keep)

\* Day view: dayEvents.filter(event => event.allDay)
DayAllDayEvents(dayEvents) ==
    LET Keep(event) == event.allDay
    IN  SelectSeq(dayEvents, Keep)

\* Day view: tasks without dueDate, or due within the day
DayAllTasks(taskList, date) ==
    LET Keep(task) == task.dueDate = Undef \/ DateKey(Val(task.dueDate)) = date
    IN  SelectSeq(taskList, Keep)

\* Day view: getHours() >= START_HOUR || getHours() <= END_HOUR
DayTimedTasks(allTasks) ==
    LET Keep(task) ==
            /\ task.dueDate # Undef
            /\ \/ GetHours(Val(task.dueDate)) >= START_HOUR
               \/ GetHours(Val(task.dueDate)) <= END_HOUR
    IN  SelectSeq(allTasks, Keep)

\* Day view: getHours() < START_HOUR || getHours() > END_HOUR
DayAllDayTasks(allTasks) ==
    LET Keep(task) ==
            \/ task.dueDate = Undef
            \/ GetHours(Val(task.dueDate)) < START_HOUR
            \/ GetHours(Val(task.dueDate)) > END_HOUR
    IN  SelectSeq(allTasks, Keep)

\* Day view: the timedItems of the day
DayTimedItems(events, taskList, date) ==
    TimedItemsOf(DayTimedEvents(DayDayEvents(events, date)),
                 DayTimedTasks(DayAllTasks(taskList, date)))

\* allocateLanes(items), the whole run of the week view's
RECURSIVE PlaceAllWeek(_, _)
PlaceAllWeek(positioned, sorted) ==
    IF sorted = <<>> THEN positioned
    ELSE PlaceAllWeek(PlaceWeek(positioned, Head(sorted)), Tail(sorted))

allocateLanesWeek(l) == PlaceAllWeek(<<>>, SortByStart(l))

\* allocateLanes(items), the whole run of the day view's
RECURSIVE PlaceAllDay(_, _)
PlaceAllDay(positioned, sorted) ==
    IF sorted = <<>> THEN positioned
    ELSE PlaceAllDay(PlaceDay(positioned, Head(sorted)), Tail(sorted))

allocateLanesDay(l) == PlaceAllDay(<<>>, SortByStart(l))

ViewsIdle ==
    /\ currentDate = 1
    /\ calEvents = <<>>
    /\ calTasks = <<>>
    /\ timedW = <<>>
    /\ timedD = <<>>
    /\ allDayW = {}
    /\ allDayD = {}
    /\ built = FALSE

(***************************************************************************)
(* Theme context (theme-context.tsx): the EU multipliers.  A multiplier    *)
(* is held in hundredths.                                                  *)
(***************************************************************************)
Domains == {"academic", "fitness", "creative", "social", "maintenance"}

DefaultEUMultipliers ==
    [d \in Domains |->
        CASE d = "academic" -> 100
          [] d = "fitness" -> 250
          [] d = "creative" -> 80
          [] d = "social" -> 120
          [] d = "maintenance" -> 60]

\* The values handed to setEUMultiplier, in hundredths: below, at and above
\* each end of the range, and inside it.
MultiplierValues == {0 - 100, 0, 9, 10, 11, 300, 499, 500, 501, 100000}

MathMin(a, b) == IF a < b THEN a ELSE b
MathMax(a, b) == IF a > b THEN a ELSE b

\* Mutant: the lower end of the range is not enforced.
ClampMutNoFloor(value) == MathMin(500, value)

\* Math.max(0.1, Math.min(5.0, value))
Clamp(value) == MathMax(10, MathMin(500, value))

ThemeIdle ==
    /\ euMultipliers = DefaultEUMultipliers
    /\ themeCall = Undef

(***************************************************************************)
(* Requests.                                                               *)
(***************************************************************************)
Users == {"u1", "u2"}
\* req.session?.userId of a request without a session
NoUser == ""
Sessions == Users \cup {NoUser}

TaskIds == 1..MaxTasks

\* Bodies of POST /api/tasks.
CreateBodies ==
    {[EmptyBody EXCEPT !.title = Some("a"), !.domain = Some("fitness"),
                       !.priority = Some("high"), !.estimatedHours = Some(20)],
     [EmptyBody EXCEPT !.title = Some("a"), !.domain = Some("constructor"),
                       !.priority = Some("urgent"), !.estimatedHours = Some(5)],
     [EmptyBody EXCEPT !.title = Some("a"), !.domain = Some("finance"),
                       !.estimatedHours = Some(15), !.actualHours = Some(50),
                       !.isCompleted = Some(TRUE), !.completedAt = Some(0),
                       !.xpReward = Some(999), !.euReward = Some(999),
                       !.userId = Some("u2")],
     [EmptyBody EXCEPT !.title = Some("a"), !.domain = Some("fitness"),
                       !.estimatedHours = Some(3)],
     [EmptyBody EXCEPT !.title = Some("a"), !.estimatedHours = Some(20)]}

\* Bodies of PATCH /api/tasks/:id.
PatchBodies ==
    {[EmptyBody EXCEPT !.isCompleted = Some(TRUE)],
     [EmptyBody EXCEPT !.isCompleted = Some(TRUE), !.actualHours = Some(23)],
     [EmptyBody EXCEPT !.isCompleted = Some(TRUE), !.actualHours = Some(30),
                       !.xpReward = Some(999), !.euReward = Some(999)],
     [EmptyBody EXCEPT !.isCompleted = Some(TRUE), !.priority = Some("low"),
                       !.domain = Some("creative"), !.estimatedHours = Some(5)],
     [EmptyBody EXCEPT !.isCompleted = Some(TRUE), !.actualHours = Some(0)],
     [EmptyBody EXCEPT !.isCompleted = Some(FALSE)],
     [EmptyBody EXCEPT !.isCompleted = Some(FALSE), !.title = Some("b"),
                       !.priority = Some("low"), !.actualHours = Some(30)],
     [EmptyBody EXCEPT !.actualHours = Some(30)],
     [EmptyBody EXCEPT !.title = Some("b"), !.priority = Some("toString"),
                       !.xpReward = Some(999), !.euReward = Some(999),
                       !.completedAt = Some(0), !.userId = Some("u2")]}

Respond(status, body) == [status |-> status, body |-> body]

PutTask(store, task) ==
    [i \in DOMAIN store \cup {task.id} |-> IF i = task.id THEN task ELSE store[i]]

RemoveTask(store, id) == [i \in DOMAIN store \ {id} |-> store[i]]

(***************************************************************************)
(* PATCH handlers in flight and the suggestions query, when nothing runs.  *)
(***************************************************************************)
MaxHandlers == 2    \* PATCH handlers in flight together
MaxSent == 7        \* requests the suggestions query sends in one run

HandlerIds == 1..MaxHandlers

\* A handler that is not running; status is the response it gave last.
IdleHandler ==
    [pc |-> "idle", userId |-> NoUser, id |-> 0, body |-> EmptyBody,
     existingTask |-> Undef, updatedTask |-> Undef, status |-> 0]

ConcIdle == handlers = [h \in HandlerIds |-> IdleHandler]

SuggestIdle ==
    /\ isOpen = FALSE
    /\ fetchStatus = "idle"
    /\ queryStatus = "pending"
    /\ failureCount = 0
    /\ retryTimer = 0
    /\ attempts = 0
    /\ sent = 0
    /\ hasData = FALSE
    /\ trigger = "none"

\* Mutant: the handlers look the task up without comparing its owner.
TaskNotFoundMutAnyOwner(store, id, userId) == id \notin DOMAIN store

\* if (!existingTask || existingTask.userId !== userId) return 404
TaskNotFound(store, id, userId) ==
    id \notin DOMAIN store \/ store[id].userId # userId

\* .sort((a, b) => b.createdAt - a.createdAt): stable, newest first
RECURSIVE InsertNewestFirst(_, _)
InsertNewestFirst(s, x) ==
    IF s = <<>> THEN <<x>>
    ELSE IF x.createdAt - s[Len(s)].createdAt <= 0
         THEN Append(s, x)
         ELSE Append(InsertNewestFirst(SubSeq(s, 1, Len(s) - 1), x), s[Len(s)])

\* The values of the map from the i-th id on, in insertion order (ids are
\* handed out in increasing order), filtered by owner and sorted.
RECURSIVE TasksOfFrom(_, _, _, _)
TasksOfFrom(store, userId, i, acc) ==
    IF i >= nextId THEN acc
    ELSE IF i \in DOMAIN store /\ store[i].userId = userId
         THEN TasksOfFrom(store, userId, i + 1, InsertNewestFirst(acc, store[i]))
         ELSE TasksOfFrom(store, userId, i + 1, acc)

\* MemStorage.getTasks(userId)
getTasks(store, userId) == TasksOfFrom(store, userId, 1, <<>>)

Init ==
    /\ tasks = <<>>
    /\ nextId = 1
    /\ now = 0
    /\ req = [op |-> "none", userId |-> NoUser, id |-> 0, body |-> EmptyBody]
    /\ res = Respond(0, Undef)
    /\ items = <<>>
    /\ sortedItems = <<>>
    /\ positionedW = <<>>
    /\ positionedD = <<>>
    /\ idx = 1
    /\ ViewsIdle
    /\ ThemeIdle
    /\ ConcIdle
    /\ SuggestIdle

\* Time passes between two requests.
Tick ==
    /\ now < MaxClock
    /\ now' = now + 1
    /\ UNCHANGED <<tasks, nextId, req, res>>
    /\ UNCHANGED <<laneVars, calVars, themeVars, concVars, suggestVars>>

\* app.post("/api/tasks")
PostTask ==
    \E userId \in Sessions, body \in CreateBodies :
        /\ nextId <= MaxTasks
        /\ req' = [op |-> "post", userId |-> userId, id |-> 0, body |-> body]
        /\ IF userId = NoUser
           THEN /\ res' = Respond(401, Undef)
                /\ UNCHANGED <<tasks, nextId>>
           ELSE IF ~ClientTaskValid(body)
           THEN /\ res' = Respond(400, Undef)
                /\ UNCHANGED <<tasks, nextId>>
           ELSE LET task == createTask(ClientTaskParsed(body), nextId, userId, now)
                IN  /\ tasks' = PutTask(tasks, task)
                    /\ nextId' = nextId + 1
                    /\ res' = Respond(201, Some(task))
        /\ UNCHANGED now
        /\ UNCHANGED <<laneVars, calVars, themeVars, concVars, suggestVars>>

\* The update handed to storage.updateTask: the validated body, with
\* completedAt: validatedUpdate.isCompleted ? new Date() : undefined
UpdateData(validatedUpdate, clock) ==
    [validatedUpdate EXCEPT
        !.completedAt = IF validatedUpdate.isCompleted = Some(TRUE) THEN Some(clock) ELSE Undef]

\* Mutant: the guard against un-completing is missing.
IsUncompletingMutNever(existingTask, validatedUpdate) == FALSE

\* Mutant: the guard tests the stored flag the wrong way round.
IsUncompletingMutInverted(existingTask, validatedUpdate) ==
    validatedUpdate.isCompleted = Some(FALSE) /\ ~existingTask.isCompleted

\* if (validatedUpdate.isCompleted === false && existingTask.isCompleted)
IsUncompleting(existingTask, validatedUpdate) ==
    validatedUpdate.isCompleted = Some(FALSE) /\ existingTask.isCompleted

\* app.patch("/api/tasks/:id")
PatchTask ==
    \E userId \in Sessions, id \in TaskIds, body \in PatchBodies :
        /\ req' = [op |-> "patch", userId |-> userId, id |-> id, body |-> body]
        /\ IF userId = NoUser
           THEN /\ res' = Respond(401, Undef)
                /\ UNCHANGED tasks
           ELSE IF TaskNotFound(tasks, id, userId)
           THEN /\ res' = Respond(404, Undef)
                /\ UNCHANGED tasks
           ELSE IF ~ClientUpdateValid(body)
           THEN /\ res' = Respond(400, Undef)
                /\ UNCHANGED tasks
           ELSE IF IsUncompleting(tasks[id], ClientUpdateParsed(body))
           THEN /\ res' = Respond(400, Undef)
                /\ UNCHANGED tasks
           ELSE LET updatedTask ==
                        updateTask(tasks[id], UpdateData(ClientUpdateParsed(body), now), now)
                IN  /\ tasks' = PutTask(tasks, updatedTask)
                    /\ res' = Respond(200, Some(updatedTask))
        /\ UNCHANGED <<nextId, now>>
        /\ UNCHANGED <<laneVars, calVars, themeVars, concVars, suggestVars>>

\* app.delete("/api/tasks/:id")
DeleteTask ==
    \E userId \in Sessions, id \in TaskIds :
        /\ req' = [op |-> "delete", userId |-> userId, id |-> id, body |-> EmptyBody]
        /\ IF userId = NoUser
           THEN /\ res' = Respond(401, Undef)
                /\ UNCHANGED tasks
           ELSE IF TaskNotFound(tasks, id, userId)
           THEN /\ res' = Respond(404, Undef)
                /\ UNCHANGED tasks
           ELSE /\ tasks' = RemoveTask(tasks, id)
                /\ res' = Respond(204, Undef)
        /\ UNCHANGED <<nextId, now>>
        /\ UNCHANGED <<laneVars, calVars, themeVars, concVars, suggestVars>>

\* app.get("/api/tasks")
GetTasks ==
    \E userId \in Sessions :
        /\ req' = [op |-> "get", userId |-> userId, id |-> 0, body |-> EmptyBody]
        /\ IF userId = NoUser
           THEN res' = Respond(401, Undef)
           ELSE res' = Respond(200, Some(getTasks(tasks, userId)))
        /\ UNCHANGED <<tasks, nextId, now>>
        /\ UNCHANGED <<laneVars, calVars, themeVars, concVars, suggestVars>>

\* app.post("/api/tasks/:id/explain"): the explanation is made from the task
\* found (modelled by the task itself), or the assistant fails.
ExplainTask ==
    \E userId \in Sessions, id \in TaskIds, offline \in BOOLEAN :
        /\ req' = [op |-> "explain", userId |-> userId, id |-> id, body |-> EmptyBody]
        /\ IF userId = NoUser
           THEN res' = Respond(401, Undef)
           ELSE IF TaskNotFound(tasks, id, userId)
           THEN res' = Respond(404, Undef)
           ELSE IF offline
           THEN res' = Respond(500, Undef)
           ELSE res' = Respond(200, Some(tasks[id]))
        /\ UNCHANGED <<tasks, nextId, now>>
        /\ UNCHANGED <<laneVars, calVars, themeVars, concVars, suggestVars>>

Next == Tick \/ PostTask \/ PatchTask \/ DeleteTask \/ GetTasks \/ ExplainTask

Spec == Init /\ [][Next]_vars

(***************************************************************************)
(* One run of allocateLanes.                                               *)
(***************************************************************************)
StoreIdle ==
    /\ tasks = <<>>
    /\ nextId = 1
    /\ now = 0
    /\ req = [op |-> "none", userId |-> NoUser, id |-> 0, body |-> EmptyBody]
    /\ res = Respond(0, Undef)

InitLanes ==
    /\ items \in {WithIds(l) : l \in InputLists}
    /\ sortedItems = SortByStart(items)
    /\ positionedW = <<>>
    /\ positionedD = <<>>
    /\ idx = 1
    /\ StoreIdle
    /\ ViewsIdle
    /\ ThemeIdle
    /\ ConcIdle
    /\ SuggestIdle

\* sortedItems.forEach((item) => { ... }): the next iteration, in both views.
Place ==
    /\ idx <= Len(sortedItems)
    /\ positionedW' = PlaceWeek(positionedW, sortedItems[idx])
    /\ positionedD' = PlaceDay(positionedD, sortedItems[idx])
    /\ idx' = idx + 1
    /\ UNCHANGED <<items, sortedItems>>
    /\ UNCHANGED <<storeVars, calVars, themeVars, concVars, suggestVars>>

NextLanes == Place

SpecLanes == InitLanes /\ [][NextLanes]_vars

\* return positioned
Returned == idx = Len(sortedItems) + 1

(***************************************************************************)
(* The calendar views lay out one day.                                     *)
(***************************************************************************)
LanesIdle ==
    /\ items = <<>>
    /\ sortedItems = <<>>
    /\ positionedW = <<>>
    /\ positionedD = <<>>
    /\ idx = 1

InitViews ==
    /\ currentDate \in ViewDays
    /\ calEvents \in {EventsWithIds(l) : l \in EventLists}
    /\ calTasks \in {TasksWithIds(l) : l \in TaskLists}
    /\ timedW = <<>>
    /\ timedD = <<>>
    /\ allDayW = {}
    /\ allDayD = {}
    /\ built = FALSE
    /\ LanesIdle
    /\ StoreIdle
    /\ ThemeIdle
    /\ ConcIdle
    /\ SuggestIdle

\* The useMemo callbacks of the two views, for the day currentDate: the timed
\* items are selected and handed to allocateLanes, the rest of the day's items
\* go to the all-day lists (held as the sets of their ids).
BuildViews ==
    /\ ~built
    /\ timedW' = WeekTimedItems(calEvents, calTasks, currentDate)
    /\ timedD' = DayTimedItems(calEvents, calTasks, currentDate)
    /\ allDayW' = IdsOf(WeekAllDayTasks(WeekDayTasks(calTasks, currentDate)))
    /\ allDayD' = IdsOf(DayAllDayTasks(DayAllTasks(calTasks, currentDate)))
                    \cup IdsOf(DayAllDayEvents(DayDayEvents(calEvents, currentDate)))
    /\ positionedW' = allocateLanesWeek(timedW')
    /\ positionedD' = allocateLanesDay(timedD')
    /\ built' = TRUE
    /\ UNCHANGED <<currentDate, calEvents, calTasks, items, sortedItems, idx>>
    /\ UNCHANGED <<storeVars, themeVars, concVars, suggestVars>>

NextViews == BuildViews

SpecViews == InitViews /\ [][NextViews]_vars

(***************************************************************************)
(* The user changes EU multipliers.                                        *)
(***************************************************************************)
InitTheme ==
    /\ ThemeIdle
    /\ LanesIdle
    /\ StoreIdle
    /\ ViewsIdle
    /\ ConcIdle
    /\ SuggestIdle

\* setEUMultiplier(domain, value): setEuMultipliers(prev => ({ ...prev,
\* [domain]: Math.max(0.1, Math.min(5.0, value)) }))
setEUMultiplier ==
    \E domain \in Domains, value \in MultiplierValues :
        /\ euMultipliers' = [euMultipliers EXCEPT ![domain] = Clamp(value)]
        /\ themeCall' = Some([domain |-> domain, value |-> value])
        /\ UNCHANGED <<laneVars, storeVars, calVars, concVars, suggestVars>>

NextTheme == setEUMultiplier

SpecTheme == InitTheme /\ [][NextTheme]_vars

(***************************************************************************)
(* PATCH handlers run together.  A handler gives way to the others at its  *)
(* two awaits: after storage.getTask has read the task, and after          *)
(* storage.updateTask has written it (both storage methods run to their    *)
(* end when called, having no await of their own).                         *)
(***************************************************************************)
\* Bodies of the PATCH requests in flight together.
ConcPatchBodies ==
    {[EmptyBody EXCEPT !.isCompleted = Some(TRUE)],
     [EmptyBody EXCEPT !.isCompleted = Some(TRUE), !.actualHours = Some(23)],
     [EmptyBody EXCEPT !.isCompleted = Some(FALSE)],
     [EmptyBody EXCEPT !.title = Some("b"), !.actualHours = Some(0)]}

InitConc ==
    /\ tasks = <<>>
    /\ nextId = 1
    /\ now = 0
    /\ req = [op |-> "none", userId |-> NoUser, id |-> 0, body |-> EmptyBody]
    /\ res = Respond(0, Undef)
    /\ ConcIdle
    /\ LanesIdle
    /\ ViewsIdle
    /\ ThemeIdle
    /\ SuggestIdle

\* The handler answers and ends.
Answered(h, status) ==
    [IdleHandler EXCEPT !.status = status]

\* The request arrives: the session is checked and storage.getTask(taskId)
\* reads the task; the handler then waits at its first await.
PatchBegin(h) ==
    \E userId \in Sessions, id \in TaskIds, body \in ConcPatchBodies :
        /\ handlers[h].pc = "idle"
        /\ \A g \in HandlerIds : g < h => handlers[g].pc # "idle"
        /\ IF userId = NoUser
           THEN handlers' = [handlers EXCEPT ![h] = Answered(h, 401)]
           ELSE handlers' = [handlers EXCEPT ![h] =
                    [pc |-> "gotTask", userId |-> userId, id |-> id, body |-> body,
                     existingTask |-> IF id \in DOMAIN tasks THEN Some(tasks[id]) ELSE Undef,
                     updatedTask |-> Undef, status |-> 0]]
        /\ UNCHANGED storeVars
        /\ UNCHANGED <<laneVars, calVars, themeVars, suggestVars>>

\* The store as the handler saw it when getTask returned.
StoreSeenBy(handler) ==
    IF handler.existingTask = Undef THEN <<>>
    ELSE [i \in {handler.id} |-> Val(handler.existingTask)]

\* The handler goes on after getTask: the 404 check, the validation and the
\* un-complete guard use the task it read; storage.updateTask then reads the
\* task again and writes it; the handler waits at its second await.
PatchApply(h) ==
    LET handler == handlers[h]
        validatedUpdate == ClientUpdateParsed(handler.body)
    IN  /\ handler.pc = "gotTask"
        /\ IF TaskNotFound(StoreSeenBy(handler), handler.id, handler.userId)
           THEN /\ handlers' = [handlers EXCEPT ![h] = Answered(h, 404)]
                /\ UNCHANGED tasks
           ELSE IF ~ClientUpdateValid(handler.body)
           THEN /\ handlers' = [handlers EXCEPT ![h] = Answered(h, 400)]
                /\ UNCHANGED tasks
           ELSE IF IsUncompleting(Val(handler.existingTask), validatedUpdate)
           THEN /\ handlers' = [handlers EXCEPT ![h] = Answered(h, 400)]
                /\ UNCHANGED tasks
           ELSE IF handler.id \notin DOMAIN tasks
           THEN /\ handlers' = [handlers EXCEPT ![h].pc = "updated"]
                /\ UNCHANGED tasks
           ELSE LET updatedTask ==
                        updateTask(tasks[handler.id], UpdateData(validatedUpdate, now), now)
                IN  /\ tasks' = PutTask(tasks, updatedTask)
                    /\ handlers' = [handlers EXCEPT ![h].pc = "updated",
                                                    ![h].updatedTask = Some(updatedTask)]
        /\ UNCHANGED <<nextId, now, req, res>>
        /\ UNCHANGED <<laneVars, calVars, themeVars, suggestVars>>

\* The handler goes on after updateTask and answers.
PatchRespond(h) ==
    /\ handlers[h].pc = "updated"
    /\ handlers' = [handlers EXCEPT ![h] =
            Answered(h, IF handlers[h].updatedTask = Undef THEN 404 ELSE 200)]
    /\ UNCHANGED storeVars
    /\ UNCHANGED <<laneVars, calVars, themeVars, suggestVars>>

NextConc ==
    \/ PostTask
    \/ DeleteTask
    \/ \E h \in HandlerIds : PatchBegin(h)
    \/ \E h \in HandlerIds : PatchApply(h)
    \/ \E h \in HandlerIds : PatchRespond(h)

SpecConc == InitConc /\ [][NextConc]_vars

(***************************************************************************)
(* SpecSuggest: the useQuery of TaskSuggestions.  The query is enabled     *)
(* while the dialog is open; a failed request is retried while fewer than  *)
(* `retry` requests of the fetch have failed, after retryDelay; refetch()  *)
(* is what the dialog's buttons call.                                      *)
(***************************************************************************)
\* retry: 2
Retry == 2

\* Mutant: one more retry.
ShouldRetryMutThree(count) == count < Retry + 1

\* The query retries a failed request while failureCount < retry.
ShouldRetry(count) == count < Retry

RECURSIVE Pow2(_)
Pow2(n) == IF n = 0 THEN 1 ELSE 2 * Pow2(n - 1)

\* retryDelay: (attemptIndex) => Math.min(1000 * 2 ** attemptIndex, 30000)
RetryDelay(attemptIndex) == MathMin(1000 * Pow2(attemptIndex), 30000)

\* The retry timer is observed once a second.
TimerStep == 1000

\* What GET /api/tasks/suggestions answers: the suggestions, no session, or
\* a failure of the storage or of the assistant.
SuggestionsStatus == {200, 401, 500}

\* The query function rejects every answer that is not a success.
QueryFnThrows(status) == status # 200

\* A fetch starts: its first request goes out.
StartFetch(cause) ==
    /\ sent < MaxSent
    /\ fetchStatus' = "fetching"
    /\ queryStatus' = IF hasData THEN queryStatus ELSE "pending"
    /\ failureCount' = 0
    /\ retryTimer' = 0
    /\ attempts' = 1
    /\ sent' = sent + 1
    /\ trigger' = cause
    /\ UNCHANGED hasData

\* Whether enabling the query refetches data it already holds is decided by
\* the client's staleTime: either way.
RefetchOnEnable == IF hasData THEN BOOLEAN ELSE {TRUE}

InitSuggest ==
    /\ SuggestIdle
    /\ StoreIdle
    /\ LanesIdle
    /\ ViewsIdle
    /\ ThemeIdle
    /\ ConcIdle

\* The dialog opens: the query becomes enabled and fetches unless a fetch
\* is already running.
OpenDialog ==
    /\ ~isOpen
    /\ isOpen' = TRUE
    /\ \E refetches \in RefetchOnEnable :
         IF fetchStatus = "idle" /\ refetches
         THEN StartFetch("open")
         ELSE UNCHANGED <<fetchStatus, queryStatus, failureCount, retryTimer,
                          attempts, sent, hasData, trigger>>
    /\ UNCHANGED <<laneVars, storeVars, calVars, themeVars, concVars>>

\* The dialog closes; a fetch that is running goes on.
CloseDialog ==
    /\ isOpen
    /\ isOpen' = FALSE
    /\ UNCHANGED <<fetchStatus, queryStatus, failureCount, retryTimer,
                   attempts, sent, hasData, trigger>>
    /\ UNCHANGED <<laneVars, storeVars, calVars, themeVars, concVars>>

\* The server answers the request that is out.
Answer ==
    /\ fetchStatus = "fetching"
    /\ \E status \in SuggestionsStatus :
         IF ~QueryFnThrows(status)
         THEN /\ fetchStatus' = "idle"
              /\ queryStatus' = "success"
              /\ hasData' = TRUE
              /\ failureCount' = 0
              /\ UNCHANGED retryTimer
         ELSE IF ShouldRetry(failureCount)
         THEN /\ fetchStatus' = "waiting"
              /\ retryTimer' = RetryDelay(failureCount)
              /\ failureCount' = failureCount + 1
              /\ UNCHANGED <<queryStatus, hasData>>
         ELSE /\ fetchStatus' = "idle"
              /\ queryStatus' = "error"
              /\ UNCHANGED <<failureCount, retryTimer, hasData>>
    /\ UNCHANGED <<isOpen, attempts, sent, trigger>>
    /\ UNCHANGED <<laneVars, storeVars, calVars, themeVars, concVars>>

\* A second of the retry delay passes; at its end the request is sent again.
RetryTick ==
    /\ fetchStatus = "waiting"
    /\ IF retryTimer > TimerStep
       THEN /\ retryTimer' = retryTimer - TimerStep
            /\ UNCHANGED <<fetchStatus, attempts, sent, trigger>>
       ELSE /\ sent < MaxSent
            /\ retryTimer' = 0
            /\ fetchStatus' = "fetching"
            /\ attempts' = attempts + 1
            /\ sent' = sent + 1
            /\ trigger' = "retry"
    /\ UNCHANGED <<isOpen, queryStatus, failureCount, hasData>>
    /\ UNCHANGED <<laneVars, storeVars, calVars, themeVars, concVars>>

\* The user presses a button that calls refetch(): a new fetch starts,
\* unless one is running and the query holds no data, which goes on.
Refetch ==
    /\ isOpen
    /\ fetchStatus = "idle" \/ hasData
    /\ StartFetch("refetch")
    /\ UNCHANGED isOpen
    /\ UNCHANGED <<laneVars, storeVars, calVars, themeVars, concVars>>

NextSuggest ==
    \/ OpenDialog
    \/ CloseDialog
    \/ Answer
    \/ RetryTick
    \/ Refetch

SpecSuggest == InitSuggest /\ [][NextSuggest]_vars

(***************************************************************************)
(* Claims about the task store (checked under Spec).                       *)
(***************************************************************************)
\* The tasks a step keeps.
Kept == DOMAIN tasks \cap DOMAIN tasks'

\* The step completes task id: its stored isCompleted goes from false to true.
\* Only PatchTask does that, and req' is then the request it handled.
Completes(id) == id \in Kept /\ ~tasks[id].isCompleted /\ tasks'[id].isCompleted

\* The step handles a PATCH of an existing task by its owner with a valid body.
PatchesOwn ==
    /\ req'.op = "patch"
    /\ req'.id \in DOMAIN tasks
    /\ tasks[req'.id].userId = req'.userId
    /\ ClientUpdateValid(req'.body)

\* C2: once a task's stored isCompleted is true, no later request makes it false.
C2_CompletionOneWay ==
    [][\A id \in Kept : tasks[id].isCompleted => tasks'[id].isCompleted]_vars

\* C2 witness: the owner's PATCH with isCompleted:false has been handled against
\* a completed task, which is still completed.
C2_Witness ==
    /\ req.op = "patch"
    /\ req.body.isCompleted = Some(FALSE)
    /\ req.id \in DOMAIN tasks
    /\ tasks[req.id].userId = req.userId
    /\ tasks[req.id].isCompleted

\* C3: a PATCH carrying isCompleted:false against a completed task gets an error
\* response and leaves the store exactly as it was, whatever else it carries.
C3_UncompleteRejected ==
    [][(/\ req'.op = "patch"
        /\ req'.body.isCompleted = Some(FALSE)
        /\ req'.id \in DOMAIN tasks
        /\ tasks[req'.id].isCompleted)
       => (res'.status >= 400 /\ tasks' = tasks)]_vars

\* C3 witness: such a PATCH, carrying a title, a priority and actualHours as
\* well, was answered 400 to the owner of the completed task, after a tick.
C3_Witness ==
    /\ req.op = "patch"
    /\ req.body.isCompleted = Some(FALSE)
    /\ req.body.title # Undef
    /\ req.body.actualHours # Undef
    /\ res.status = 400
    /\ req.id \in DOMAIN tasks
    /\ tasks[req.id].userId = req.userId
    /\ tasks[req.id].isCompleted
    /\ tasks[req.id].title # Val(req.body.title)
    /\ tasks[req.id].updatedAt < now

\* C4: a valid PATCH with isCompleted:true by the owner of an already completed
\* task is answered 200, and no step changes the xpReward or euReward of a
\* completed task: they stay the values computed when it was completed.
C4_DoubleCompletionIdempotent ==
    [][/\ (PatchesOwn /\ req'.body.isCompleted = Some(TRUE) /\ tasks[req'.id].isCompleted)
            => res'.status = 200
       /\ \A id \in Kept : tasks[id].isCompleted =>
            /\ tasks'[id].xpReward = tasks[id].xpReward
            /\ tasks'[id].euReward = tasks[id].euReward]_vars

\* C4 witness: a completed task was PATCHed again with isCompleted:true and new
\* actualHours, which were stored, and its xpReward is not the one those hours
\* would give.
C4_Witness ==
    /\ req.op = "patch"
    /\ res.status = 200
    /\ req.body.isCompleted = Some(TRUE)
    /\ req.body.actualHours # Undef
    /\ tasks[req.id].actualHours = req.body.actualHours
    /\ tasks[req.id].xpReward > 0
    /\ tasks[req.id].xpReward #
         calculateXPReward(tasks[req.id].priority, ParseFloat(Val(req.body.actualHours)))

\* round(num / den), a tie going up, in exact arithmetic (num >= 0, den > 0)
RoundHalfUp(num, den) == (2 * num + den) \div (2 * den)

\* baseXP of the claim: low 10, medium 15, high 25, urgent 40, otherwise 15
ClaimBaseXP(priority) ==
    CASE priority = "low" -> 10
      [] priority = "medium" -> 15
      [] priority = "high" -> 25
      [] priority = "urgent" -> 40
      [] OTHER -> 15

\* domain multiplier of the claim, in tenths: academic 1.0, fitness 2.5,
\* creative 0.8, social 1.2, maintenance 0.6, otherwise 1.0
ClaimMultiplierTenths(domain) ==
    CASE domain = "academic" -> 10
      [] domain = "fitness" -> 25
      [] domain = "creative" -> 8
      [] domain = "social" -> 12
      [] domain = "maintenance" -> 6
      [] OTHER -> 10

\* The hours (in tenths) of the completion a step performs on task id: those
\* of the request, or else the estimatedHours stored when it arrived.
CompletionTenths(id) ==
    IF req'.body.actualHours # Undef THEN Val(req'.body.actualHours)
    ELSE tasks[id].estimatedHours

\* C8: at the completion of a task, its stored xpReward is
\* round(baseXP(priority) * hours), a tie going up.
C8_XPFormula ==
    [][\A id \in Kept : Completes(id) =>
         tasks'[id].xpReward =
            RoundHalfUp(ClaimBaseXP(tasks[id].priority) * CompletionTenths(id), 10)]_vars

\* C9: at the completion of a task, its stored euReward is
\* round(hours * multiplier(domain) * 10).
C9_EUFormula ==
    [][\A id \in Kept : Completes(id) =>
         tasks'[id].euReward =
            RoundHalfUp(CompletionTenths(id) * ClaimMultiplierTenths(tasks[id].domain), 10)]_vars

\* C10: a PATCH that completes a task and carries no actualHours computes both
\* rewards from the estimatedHours stored when it arrived and stores that value
\* as actualHours; one that carries actualHours uses and stores those.
C10_DefaultHours ==
    [][\A id \in Kept : Completes(id) =>
         LET used == IF req'.body.actualHours = Undef
                     THEN tasks[id].estimatedHours
                     ELSE Val(req'.body.actualHours)
         IN  /\ tasks'[id].actualHours = Some(used)
             /\ tasks'[id].xpReward = calculateXPReward(tasks[id].priority, ParseFloat(used))
             /\ tasks'[id].euReward = calculateEUReward(tasks[id].domain, ParseFloat(used))]_vars

\* C10 witness: a task was completed by a PATCH without actualHours that also
\* changed its estimatedHours, and holds the earlier estimate as actualHours.
C10_Witness ==
    /\ req.op = "patch"
    /\ res.status = 200
    /\ req.body.isCompleted = Some(TRUE)
    /\ req.body.actualHours = Undef
    /\ req.body.estimatedHours # Undef
    /\ tasks[req.id].isCompleted
    /\ tasks[req.id].actualHours # Some(tasks[req.id].estimatedHours)
    /\ tasks[req.id].completedAt = Some(tasks[req.id].updatedAt)
    /\ tasks[req.id].xpReward = 50


\* C11: every accepted PATCH that takes a task from incomplete to complete
\* leaves it with xpReward >= 1, euReward >= 1 and a completedAt.
C11_CompletionRewardsPositive ==
    [][\A id \in Kept : Completes(id) =>
         /\ tasks'[id].xpReward >= 1
         /\ tasks'[id].euReward >= 1
         /\ tasks'[id].completedAt # Undef]_vars

\* C12: xpReward and euReward sent in a POST or PATCH body never reach the
\* store: a created task has both at 0, the stored rewards of a task change
\* only in the step that takes its isCompleted from false to true, and they
\* are then the calculator's values for the stored priority and domain.
C12_RewardsServerControlled ==
    [][/\ \A id \in DOMAIN tasks' \ DOMAIN tasks :
            tasks'[id].xpReward = 0 /\ tasks'[id].euReward = 0
       /\ \A id \in Kept :
            /\ (\/ tasks'[id].xpReward # tasks[id].xpReward
                \/ tasks'[id].euReward # tasks[id].euReward) => Completes(id)
            /\ Completes(id) =>
                /\ tasks'[id].xpReward =
                      calculateXPReward(tasks[id].priority, ParseFloat(CompletionTenths(id)))
                /\ tasks'[id].euReward =
                      calculateEUReward(tasks[id].domain, ParseFloat(CompletionTenths(id)))]_vars

\* C12 witness: an accepted PATCH whose body carried xpReward and euReward has
\* completed a task, which holds other rewards than the ones sent.
C12_Witness ==
    /\ req.op = "patch"
    /\ res.status = 200
    /\ req.body.xpReward # Undef
    /\ req.body.euReward # Undef
    /\ req.body.isCompleted = Some(TRUE)
    /\ tasks[req.id].xpReward > 0
    /\ tasks[req.id].xpReward # Val(req.body.xpReward)
    /\ tasks[req.id].euReward # Val(req.body.euReward)

\* C13: the task a successful creation returns (and stores) has xpReward 0,
\* euReward 0, isCompleted false, no completedAt and no actualHours, whatever
\* the request carried.
C13_CreatedTaskBlank ==
    (req.op = "post" /\ res.status = 201) =>
        LET task == Val(res.body)
        IN  /\ task.xpReward = 0
            /\ task.euReward = 0
            /\ ~task.isCompleted
            /\ task.completedAt = Undef
            /\ task.actualHours = Undef
            /\ task.id \in DOMAIN tasks
            /\ tasks[task.id] = task

\* C13 witness: a creation whose body carried rewards, isCompleted, completedAt
\* and actualHours was answered 201.
C13_Witness ==
    /\ req.op = "post"
    /\ res.status = 201
    /\ req.body.xpReward # Undef
    /\ req.body.euReward # Undef
    /\ req.body.isCompleted = Some(TRUE)
    /\ req.body.completedAt # Undef
    /\ req.body.actualHours # Undef

\* C14: in every reachable state of the store, a task that is not completed
\* has xpReward 0 and euReward 0.
C14_IncompleteHasNoRewards ==
    \A id \in DOMAIN tasks :
        ~tasks[id].isCompleted => (tasks[id].xpReward = 0 /\ tasks[id].euReward = 0)

\* C14 witness: a task is still incomplete after an accepted PATCH by its owner
\* that carried rewards, a tick after its creation.
C14_Witness ==
    /\ req.op = "patch"
    /\ res.status = 200
    /\ req.body.xpReward # Undef
    /\ ~tasks[req.id].isCompleted
    /\ tasks[req.id].updatedAt > tasks[req.id].createdAt

Priorities == {"low", "medium", "high", "urgent"}

\* C19: every stored task has its priority in {low, medium, high, urgent} and
\* its domain in {academic, fitness, creative, social, maintenance}.
C19_ClosedEnums ==
    \A id \in DOMAIN tasks :
        tasks[id].priority \in Priorities /\ tasks[id].domain \in Domains

\* C25: completedAt is written once: it is absent while the task is
\* incomplete, is set by the step that completes the task, and no later
\* request changes it.
C25_CompletedAtWrittenOnce ==
    [][\A id \in Kept :
         /\ ~tasks[id].isCompleted => tasks[id].completedAt = Undef
         /\ Completes(id) => tasks'[id].completedAt # Undef
         /\ tasks[id].isCompleted => tasks'[id].completedAt = tasks[id].completedAt]_vars

\* C26: the task stored by the PATCH that completes it has
\* xpReward = round(baseXP(its priority) * its actualHours) and
\* euReward = round(its actualHours * multiplier(its domain) * 10), the
\* priority, domain and actualHours being those of the stored task.
C26_RewardsMatchStoredFields ==
    [][\A id \in Kept : Completes(id) =>
         /\ tasks'[id].actualHours # Undef
         /\ tasks'[id].xpReward =
               RoundHalfUp(ClaimBaseXP(tasks'[id].priority) * Val(tasks'[id].actualHours), 10)
         /\ tasks'[id].euReward =
               RoundHalfUp(Val(tasks'[id].actualHours)
                              * ClaimMultiplierTenths(tasks'[id].domain), 10)]_vars

\* The tasks a response hands to the client: the list of a GET, the task of
\* a POST, a PATCH or an explain.
ReturnedTasks(response, op) ==
    IF response.body = Undef THEN {}
    ELSE IF op = "get" THEN {Val(response.body)[i] : i \in DOMAIN Val(response.body)}
    ELSE {Val(response.body)}

\* C30: a request under session user U returns no task of another user, and
\* leaves every task of another user in the store as it was; PATCH, DELETE
\* and explain on another user's task answer 404 and leave the store
\* unchanged; no request changes the userId of an existing task.
C30_OwnerIsolation ==
    [][/\ \A t \in ReturnedTasks(res', req'.op) : t.userId = req'.userId
       /\ \A id \in DOMAIN tasks :
            tasks[id].userId # req'.userId =>
                /\ id \in DOMAIN tasks' /\ tasks'[id] = tasks[id]
                /\ (req'.op \in {"patch", "delete", "explain"} /\ req'.id = id
                    /\ req'.userId # NoUser)
                      => (res'.status = 404 /\ tasks' = tasks)
       /\ \A id \in Kept : tasks'[id].userId = tasks[id].userId]_vars

\* C30 witness: user u2's PATCH, carrying userId u2 in its body, on a task of
\* user u1 was answered 404; the task is still u1's, with its first title.
C30_Witness ==
    /\ req.op = "patch"
    /\ req.userId = "u2"
    /\ req.body.userId = Some("u2")
    /\ res.status = 404
    /\ req.id \in DOMAIN tasks
    /\ tasks[req.id].userId = "u1"
    /\ tasks[req.id].title = "a"

(***************************************************************************)
(* Claims about PATCH handlers in flight together (checked under SpecConc).*)
(***************************************************************************)
\* The step is handler h's call of storage.updateTask on a task of the store.
Applies(h) ==
    /\ handlers[h].pc = "gotTask"
    /\ handlers'[h].pc = "updated"
    /\ handlers'[h].updatedTask # Undef

\* The hours (in tenths) handler h's update completes the task with.
HandlerTenths(h) ==
    IF handlers[h].body.actualHours # Undef THEN Val(handlers[h].body.actualHours)
    ELSE tasks[handlers[h].id].estimatedHours

\* C21: of the completion updates applied to a task, the one applied while
\* the task is incomplete computes the rewards, from its own hours; one
\* applied when the task is already completed computes nothing and leaves
\* xpReward and euReward as they are; and no other step changes the rewards
\* of a completed task.
C21_RewardsGrantedOnce ==
    [][/\ \A h \in HandlerIds :
            (Applies(h) /\ handlers[h].body.isCompleted = Some(TRUE)) =>
                LET id == handlers[h].id
                IN  IF tasks[id].isCompleted
                    THEN /\ tasks'[id].xpReward = tasks[id].xpReward
                         /\ tasks'[id].euReward = tasks[id].euReward
                    ELSE /\ tasks'[id].xpReward =
                               calculateXPReward(tasks[id].priority,
                                                 ParseFloat(HandlerTenths(h)))
                         /\ tasks'[id].euReward =
                               calculateEUReward(tasks[id].domain,
                                                 ParseFloat(HandlerTenths(h)))
       /\ \A id \in Kept : tasks[id].isCompleted =>
            /\ tasks'[id].xpReward = tasks[id].xpReward
            /\ tasks'[id].euReward = tasks[id].euReward]_vars

\* C21 witness: two completion PATCHes of one task, with different hours, both
\* read the task while it was incomplete and both have been applied; the task
\* holds the hours of the second and rewards that are not those of its hours.
C21_Witness ==
    /\ handlers[1].pc = "updated"
    /\ handlers[2].pc = "updated"
    /\ handlers[1].id = handlers[2].id
    /\ handlers[1].body.isCompleted = Some(TRUE)
    /\ handlers[2].body.isCompleted = Some(TRUE)
    /\ handlers[1].body.actualHours # handlers[2].body.actualHours
    /\ handlers[1].existingTask # Undef
    /\ handlers[2].existingTask # Undef
    /\ ~Val(handlers[1].existingTask).isCompleted
    /\ ~Val(handlers[2].existingTask).isCompleted
    /\ handlers[1].id \in DOMAIN tasks
    /\ LET task == tasks[handlers[1].id]
       IN  /\ task.isCompleted
           /\ task.xpReward > 0
           /\ task.xpReward #
                calculateXPReward(task.priority, ParseFloat(Val(task.actualHours)))

\* C28: with PATCH handlers interleaved at their awaits, no step takes a
\* task from completed back to incomplete, and rewards are granted only to
\* a task that was never completed before (it has no completedAt and no
\* rewards yet).
C28_OneWayUnderInterleaving ==
    [][\A id \in Kept :
         /\ tasks[id].isCompleted => tasks'[id].isCompleted
         /\ Completes(id) =>
              /\ tasks[id].completedAt = Undef
              /\ tasks[id].xpReward = 0
              /\ tasks[id].euReward = 0]_vars

(***************************************************************************)
(* Claims about the lane allocator (checked under SpecLanes).              *)
(***************************************************************************)
\* The effective end of the claims: the item's end, or start + 60 minutes.
EffEnd(it) ==
    IF it.endTime = Undef THEN it.startTime + 60 * MsPerMinute ELSE Val(it.endTime)

Overlap(a, b) == a.startTime < EffEnd(b) /\ b.startTime < EffEnd(a)

\* The items that item i of p overlaps.
Neighbours(p, i) == {j \in DOMAIN p : j # i /\ Overlap(p[i], p[j])}

\* The maximal overlap-connected cluster of item i of p.
RECURSIVE Grow(_, _)
Grow(p, S) ==
    LET T == S \cup UNION {Neighbours(p, i) : i \in S}
    IN  IF T = S THEN S ELSE Grow(p, T)

Cluster(p, i) == Grow(p, {i})

Mex(S) == CHOOSE n \in 0..Cardinality(S) : n \notin S /\ \A m \in 0..(n - 1) : m \in S

NoOverlapIn(p) ==
    \A i, j \in DOMAIN p : (i # j /\ Overlap(p[i], p[j])) => p[i].lane # p[j].lane

\* C1: in the list either view's allocateLanes returns, two items whose
\* effective intervals overlap never have the same lane.
C1_NoOverlap ==
    Returned => (NoOverlapIn(positionedW) /\ NoOverlapIn(positionedD))

\* C1 witness: a returned list in which some pair overlaps, one of the pair
\* being an item without an end.
C1_Witness ==
    /\ Returned
    /\ \E i, j \in DOMAIN positionedW :
          /\ i # j
          /\ Overlap(positionedW[i], positionedW[j])
          /\ positionedW[i].endTime = Undef
          /\ positionedD[i].lane # positionedD[j].lane

MinimalIn(p) ==
    \A i \in DOMAIN p : p[i].lane = Mex({p[j].lane : j \in Neighbours(p, i)})

\* The input A(0-60), B(30-90), C(80-140), in any input order.
ChainShapes ==
    {[startTime |-> 0, endTime |-> Some(60 * MsPerMinute)],
     [startTime |-> 30 * MsPerMinute, endTime |-> Some(90 * MsPerMinute)],
     [startTime |-> 80 * MsPerMinute, endTime |-> Some(140 * MsPerMinute)]}

IsChainInput ==
    /\ Len(items) = 3
    /\ {[startTime |-> items[i].startTime, endTime |-> items[i].endTime] :
            i \in DOMAIN items} = ChainShapes

LanesOfChain(p) ==
    /\ \A i \in DOMAIN p : p[i].startTime = 30 * MsPerMinute => p[i].lane = 1
    /\ \A i \in DOMAIN p : p[i].startTime # 30 * MsPerMinute => p[i].lane = 0

\* C5: in the returned list every item's lane is the smallest non-negative
\* integer that is the lane of no item it overlaps, whether that item was
\* placed before or after it; the chain A, B, C gets the lanes 0, 1, 0.
C5_FirstFitMinimal ==
    Returned =>
        /\ MinimalIn(positionedW)
        /\ MinimalIn(positionedD)
        /\ IsChainInput => (LanesOfChain(positionedW) /\ LanesOfChain(positionedD))

\* C5 witness: the chain input has been laid out, and a lane above 0 was given.
C5_Witness ==
    /\ Returned
    /\ IsChainInput
    /\ \E i \in DOMAIN positionedW : positionedW[i].lane = 1

ClusterCountIn(p) ==
    \A i \in DOMAIN p :
        /\ \A j \in Cluster(p, i) : p[j].maxLanes = p[i].maxLanes
        /\ p[i].maxLanes = Max({p[j].lane : j \in Cluster(p, i)}) + 1

\* C6: in the returned list all items of one maximal overlap-connected
\* cluster carry the same maxLanes, equal to the cluster's highest lane + 1.
C6_ClusterLaneCount ==
    Returned => (ClusterCountIn(positionedW) /\ ClusterCountIn(positionedD))

\* C7 as stated: the chain A(0-60), B(30-90), C(80-140) reports laneCount 3
\* for all three items.
C7_ChainCountThree ==
    (Returned /\ IsChainInput) =>
        /\ \A i \in DOMAIN positionedW : positionedW[i].maxLanes = 3
        /\ \A i \in DOMAIN positionedD : positionedD[i].maxLanes = 3

\* C7 amended: the chain A(0-60), B(30-90), C(80-140) reports the same
\* laneCount 2 for all three items (its lanes are 0, 1, 0).
C7_ChainCountTwo ==
    (Returned /\ IsChainInput) =>
        /\ \A i \in DOMAIN positionedW : positionedW[i].maxLanes = 2
        /\ \A i \in DOMAIN positionedD : positionedD[i].maxLanes = 2

\* C7 witness: the chain input has been laid out completely.
C7_Witness ==
    /\ Returned
    /\ IsChainInput
    /\ Len(positionedW) = 3
    /\ Len(positionedD) = 3

\* Two spans [left, left + width) of the column intersect.
SpansIntersect(a, b) ==
    /\ FracLess(a.left, FracAdd(b.left, b.width))
    /\ FracLess(b.left, FracAdd(a.left, a.width))

\* C15: two returned items whose effective intervals overlap are drawn on
\* horizontal spans that do not intersect, each span computed from the
\* item's own lane and maxLanes.
C15_GeometryCollisionFree ==
    Returned =>
        /\ \A i, j \in DOMAIN positionedW :
              (i # j /\ Overlap(positionedW[i], positionedW[j])) =>
                 ~SpansIntersect(CardSpanWeek(positionedW[i]), CardSpanWeek(positionedW[j]))
        /\ \A i, j \in DOMAIN positionedD :
              (i # j /\ Overlap(positionedD[i], positionedD[j])) =>
                 ~SpansIntersect(CardSpanDay(positionedD[i]), CardSpanDay(positionedD[j]))

\* The one-element list allocateLanes is to return for the one-element input.
SingleResult == <<Positioned(items[1], 0, 1)>>

\* C16: allocateLanes returns the empty list for the empty input, and for a
\* one-item input that item with lane 0 and maxLanes 1.
C16_EmptyAndSingle ==
    Returned =>
        /\ Len(items) = 0 => (positionedW = <<>> /\ positionedD = <<>>)
        /\ Len(items) = 1 => (positionedW = SingleResult /\ positionedD = SingleResult)

\* C16 witness: a one-item input has been laid out, the item being one whose
\* end is before its start.
C16_Witness ==
    /\ Returned
    /\ Len(items) = 1
    /\ Len(positionedW) = 1
    /\ Len(positionedD) = 1
    /\ items[1].endTime # Undef
    /\ Val(items[1].endTime) < items[1].startTime

\* All items of the input have the same start and the same end.
AllIdentical ==
    /\ Len(items) >= 1
    /\ \A i \in DOMAIN items :
          /\ items[i].startTime = items[1].startTime
          /\ items[i].endTime = items[1].endTime

\* The item at input position i (id i) has lane i - 1, and maxLanes n.
LanesByInputOrder(p) ==
    /\ Len(p) = Len(items)
    /\ \A i \in DOMAIN p : p[i].id = i /\ p[i].lane = i - 1 /\ p[i].maxLanes = Len(items)

\* C17: n items with identical start and identical end (an end equal to the
\* start included) get the lanes 0..n-1 in input order and maxLanes n each.
C17_IdenticalItems ==
    (Returned /\ AllIdentical) =>
        (LanesByInputOrder(positionedW) /\ LanesByInputOrder(positionedD))

\* The input with the end of every item whose end is before its start
\* replaced by its start.
ClampedEnds(l) ==
    [i \in DOMAIN l |->
        IF l[i].endTime # Undef /\ Val(l[i].endTime) < l[i].startTime
        THEN [l[i] EXCEPT !.endTime = Some(l[i].startTime)]
        ELSE l[i]]

\* Two results give the same items, in the same order, the same lane and maxLanes.
SameLayout(p, q) ==
    /\ Len(p) = Len(q)
    /\ \A i \in DOMAIN p :
          p[i].id = q[i].id /\ p[i].lane = q[i].lane /\ p[i].maxLanes = q[i].maxLanes

\* C23: an input with items whose end is before their start is laid out as
\* the same input with each such end replaced by the item's start.
C23_MalformedAsZeroLength ==
    Returned =>
        /\ SameLayout(positionedW, allocateLanesWeek(ClampedEnds(items)))
        /\ SameLayout(positionedD, allocateLanesDay(ClampedEnds(items)))

\* The lanes and lane counts of a (partial) result are in range.
LanesInRange(p) ==
    \A i \in DOMAIN p :
        /\ 0 <= p[i].lane
        /\ p[i].lane < p[i].maxLanes
        /\ p[i].maxLanes <= Len(items)

\* No item placed so far gets a smaller maxLanes when the next one is placed.
MaxLanesGrows(p, q) ==
    \A i \in DOMAIN p : q[i].id = p[i].id /\ q[i].maxLanes >= p[i].maxLanes

\* The result holds every input item exactly once.
HoldsEachOnce(p) ==
    /\ Len(p) = Len(items)
    /\ \A i \in DOMAIN items :
          Cardinality({j \in DOMAIN p : p[j].id = items[i].id}) = 1
    /\ \A j \in DOMAIN p :
          /\ p[j].startTime = items[p[j].id].startTime
          /\ p[j].endTime = items[p[j].id].endTime

\* C24: every placed item has 0 <= lane < maxLanes <= number of input items,
\* no placed item's maxLanes decreases when a later item is placed, and the
\* returned list holds every input item exactly once.
C24_LaneBounds ==
    [][/\ LanesInRange(positionedW') /\ LanesInRange(positionedD')
       /\ MaxLanesGrows(positionedW, positionedW') /\ MaxLanesGrows(positionedD, positionedD')
       /\ Returned' => (HoldsEachOnce(positionedW') /\ HoldsEachOnce(positionedD'))]_vars

\* C24 witness: in a returned list of four items an item placed early carries
\* a maxLanes above the one it was given first (its lane + 1 when it has lane 0
\* and is the first of the list).
C24_Witness ==
    /\ Returned
    /\ Len(positionedW) = MaxLen
    /\ positionedW[1].maxLanes >= 3
    /\ positionedD[1].maxLanes >= 3
    /\ \E i \in DOMAIN positionedW : positionedW[i].maxLanes < positionedW[1].maxLanes

\* C29: for every input the two views' allocateLanes build the same list,
\* after every iteration and so at the return: the same items in the same
\* order with the same lane and maxLanes.
C29_ViewsAgree == positionedW = positionedD

\* C29 witness: a returned list in which the placing of an item changed the
\* maxLanes of an earlier one, the step at which the two views differ in order.
C29_Witness ==
    /\ Returned
    /\ \E i, j \in DOMAIN positionedW :
          /\ i < j
          /\ positionedW[i].maxLanes > positionedW[i].lane + 1
          /\ positionedW[j].lane + 1 = positionedW[i].maxLanes
          /\ positionedD[i].maxLanes = positionedW[i].maxLanes

(***************************************************************************)
(* Claims about the calendar views (checked under SpecViews).              *)
(***************************************************************************)
\* The item of a timed list is a task with a due date or an event that is
\* not all-day.
IsTimedKind(item) ==
    /\ item.id[1] = "task" => calTasks[item.id[2]].dueDate # Undef
    /\ item.id[1] = "event" => ~calEvents[item.id[2]].allDay

\* C18: the list either view hands to allocateLanes holds no task without a
\* due date and no all-day event.
C18_TimedListExcludesAllDay ==
    built =>
        /\ \A i \in DOMAIN timedW : IsTimedKind(timedW[i])
        /\ \A i \in DOMAIN timedD : IsTimedKind(timedD[i])

\* The tasks of the tasks prop that have a due date on the displayed day.
DueToday == {i \in DOMAIN calTasks :
                /\ calTasks[i].dueDate # Undef
                /\ DateKey(Val(calTasks[i].dueDate)) = currentDate}

\* Task i is in exactly one of a timed list and an all-day list.
InExactlyOne(i, timed, allDay) ==
    (calTasks[i].id \in IdsOf(timed)) # (calTasks[i].id \in allDay)

\* C27: in both views every task with a due date on the displayed day is in
\* exactly one of the timed list and the all-day list, whatever its due hour.
C27_TimedXorAllDay ==
    built => \A i \in DueToday :
                /\ InExactlyOne(i, timedW, allDayW)
                /\ InExactlyOne(i, timedD, allDayD)

(***************************************************************************)
(* Claims about the theme context (checked under SpecTheme).               *)
(***************************************************************************)
\* The value the claim gives for a call, in hundredths.
ClaimClamp(value) == IF value < 10 THEN 10 ELSE IF value > 500 THEN 500 ELSE value

\* C20: a setEUMultiplier(domain, value) call leaves that domain's multiplier
\* in [0.1, 5.0] (0.1 for a value below, 5.0 for a value above, else the
\* value) and every other domain's multiplier as it was; so all multipliers
\* stay in range after any sequence of calls.
C20_MultiplierClamped ==
    [][themeCall' # Undef =>
         LET call == Val(themeCall')
         IN  /\ euMultipliers'[call.domain] = ClaimClamp(call.value)
             /\ euMultipliers'[call.domain] >= 10
             /\ euMultipliers'[call.domain] <= 500
             /\ \A d \in Domains \ {call.domain} : euMultipliers'[d] = euMultipliers[d]]_vars

\* C20 witness: after calls for several domains, the last one, with a value
\* below the range, has set its domain to 0.1 while another domain sits at 5.0.
C20_Witness ==
    /\ themeCall # Undef
    /\ Val(themeCall).value < 10
    /\ euMultipliers[Val(themeCall).domain] = 10
    /\ \E d \in Domains \ {Val(themeCall).domain} : euMultipliers[d] = 500

(***************************************************************************)
(* Claims about the suggestions query (checked under SpecSuggest).         *)
(***************************************************************************)
\* After the query has settled in its error state, only the user sends the
\* next request: by opening the dialog again or by a button calling refetch().
QuietAfterError ==
    (queryStatus = "error" /\ fetchStatus = "idle" /\ sent' # sent) =>
        \/ trigger' = "refetch" /\ isOpen
        \/ trigger' = "open" /\ ~isOpen /\ isOpen'

\* The "ALFRED Offline" state is shown only once the fetch has ended.
ErrorIsSettled ==
    (queryStatus' = "error" /\ ~hasData') =>
        (fetchStatus' = "idle" /\ retryTimer' = 0)

\* C22 as stated: one fetch of the suggestions sends at most 2 requests,
\* then the query settles in the error state and sends nothing until the
\* user opens the dialog again or calls refetch().
C22_AtMostTwoAttempts ==
    [][attempts' <= 2 /\ ErrorIsSettled /\ QuietAfterError]_vars

\* C22 amended: one fetch of the suggestions sends at most 3 requests (the
\* first and 2 retries), then the query settles in the error state and
\* sends nothing until the user opens the dialog again or calls refetch().
C22_AtMostThreeAttempts ==
    [][attempts' <= Retry + 1 /\ ErrorIsSettled /\ QuietAfterError]_vars

\* C22 witness: the dialog is open, the fetch it started has failed three
\* times, the last request being the second retry, and the query shows the
\* error state with nothing left running.
C22_Witness ==
    /\ isOpen
    /\ queryStatus = "error"
    /\ ~hasData
    /\ fetchStatus = "idle"
    /\ retryTimer = 0
    /\ attempts = 3
    /\ failureCount = Retry
    /\ trigger = "retry"

====
